---- MODULE Spec2Model ----
(***************************************************************************)
(* Model of resultjs: the Result container and its asynchronous bridge,    *)
(* ResultPromise (src/src/impls/promise.ts), a subclass of the host        *)
(* Promise whose fulfilment value is always a Result.                      *)
(*                                                                         *)
(* The host runtime is modelled as far as the class relies on it: a heap   *)
(* of promise records (state, value, pending reactions), a FIFO queue of   *)
(* reaction jobs (microtasks), and foreign thenables that an environment   *)
(* step completes.  Closures of the source are records naming the code     *)
(* they stand for and the promise whose capabilities they captured.        *)
(***************************************************************************)
EXTENDS Integers, Sequences, FiniteSets, TLC

\* Payloads the environment supplies (executor arguments, foreign outcomes).
MaxVal == 2
Vals == 1..MaxVal


(***************************************************************************)
(* Values.  Every JavaScript value of the model is a tagged record.        *)
(***************************************************************************)
Undefined == [tag |-> "undefined"]
Plain(n) == [tag |-> "plain", n |-> n]
\* new Result.Ok(value): ok flag true, payload in `value`.
OkResult(value) == [tag |-> "ok", ok |-> TRUE, value |-> value]
\* new Result.Error(error): ok flag false, payload in `error`.
ErrorResult(error) == [tag |-> "error", ok |-> FALSE, error |-> error]
\* A reference to a ResultPromise of the heap.
RP(id) == [tag |-> "rp", id |-> id]
\* A reference to a foreign thenable that is no promise of the host: an
\* object with a then method.
FF(id) == [tag |-> "foreign", id |-> id]
\* A reference to a promise of the host that is no ResultPromise, such as
\* Promise.resolve(v) or what an async function returns.  It is kept on the
\* heap of foreign thenables.
HostPromise(id) == [tag |-> "promise", id |-> id]
\* true and false.
Bool(b) == [tag |-> "boolean", b |-> b]
\* The number NaN.
NaN == [tag |-> "NaN"]
\* A primitive string, as the sequence of its characters.
Str(chars) == [tag |-> "string", chars |-> chars]
\* The TypeError the host raises on a property access on undefined.
TypeError == [tag |-> "TypeError"]
\* A function that returns `returns` when called.
Fn(returns) == [tag |-> "function", returns |-> returns]

\* helpers.isThenable: an object with a callable `then`.
isThenable(value) == value.tag \in {"rp", "foreign", "promise"}

\* Result.is: instanceof OkResult || instanceof ErrorResult.
is(value) == value.tag \in {"ok", "error"}

(***************************************************************************)
(* Closures.  `Null` is an absent handler.  A user handler is named by the *)
(* call that received it and the parameter it was passed as.               *)
(***************************************************************************)
Null == [kind |-> "null"]
User(call, slot) == [kind |-> "user", call |-> call, slot |-> slot]
\* A handler that only looks at its argument and returns nothing, such as
\* reason => { expect(reason)...; fn(); } of test/promise.test.ts, lines 27-32.
Observer(call) == [kind |-> "observer", call |-> call, slot |-> "observer"]
Closure(kind, target, call) == [kind |-> kind, target |-> target, call |-> call]
Wrapped(kind, target, h) == [kind |-> kind, target |-> target, h |-> h]

(***************************************************************************)
(* The runtime state threaded through the operators below.                 *)
(*   promises  heap of ResultPromise records                               *)
(*   foreign   heap of foreign thenables                                   *)
(*   jobs      queue of promise reaction jobs                              *)
(*   log       invocations of user handlers, in order                      *)
(*   awaited   what an `await` of the chain produced                       *)
(*   deferred  promises whose executor kept its three capabilities         *)
(*   calls     the calls the script made, in order                         *)
(*   script    whether the synchronous script is still running             *)
(*   firstcap  the first capability call of each deferred executor, and    *)
(*             whether it made a different call again later                *)
(*   ret       return value of the operation just performed                *)
(***************************************************************************)
\* An operator that reads its state argument more than once is written
\*     CHOOSE result \in { body : st \in {st0} } : TRUE
\* which is body with st standing for the value of st0.
PendingPromise == [state |-> "pending", value |-> Undefined, reactions |-> <<>>]

EmptyState ==
    [promises |-> <<>>, foreign |-> <<>>, jobs |-> <<>>, log |-> <<>>,
     awaited |-> [status |-> "none", value |-> Undefined],
     deferred |-> {}, ret |-> Undefined, throws |-> FALSE]

Job(cb, arg, cap) == [cb |-> cb, arg |-> arg, cap |-> cap]

\* Variant of NativeSettle: a call on a promise that has completed settles it
\* again.
Mut_NativeSettle(st0, p, state, value) ==
    CHOOSE result \in {
    LET rs == st.promises[p].reactions
        newJobs == [i \in 1..Len(rs) |->
                       Job(IF state = "fulfilled" THEN rs[i].onFulfilled
                                                  ELSE rs[i].onRejected,
                           value, rs[i].cap)]
    IN [st EXCEPT !.promises[p] =
                      [state |-> state, value |-> value, reactions |-> <<>>],
                  !.jobs = st.jobs \o newJobs]
    : st \in {st0}} : TRUE

\* The host's resolve/reject functions of promise p, applied to a value that is
\* not a thenable: the first call settles p and schedules its reactions, every
\* later call is ignored.
NativeSettle(st0, p, state, value) ==
    CHOOSE result \in {
    IF st.promises[p].state # "pending"
    THEN st
    ELSE LET rs == st.promises[p].reactions
             newJobs == [i \in 1..Len(rs) |->
                            Job(IF state = "fulfilled" THEN rs[i].onFulfilled
                                                       ELSE rs[i].onRejected,
                                value, rs[i].cap)]
         IN [st EXCEPT !.promises[p] =
                           [state |-> state, value |-> value, reactions |-> <<>>],
                       !.jobs = st.jobs \o newJobs]
    : st \in {st0}} : TRUE

\* Variant of resolve: the value is handed to the host's resolve unwrapped.
Mut_resolve(st, p, value) == NativeSettle(st, p, "fulfilled", value)

\* constructor, line 34: value => resolve(new Result.Ok(value))
resolve(st, p, value) == NativeSettle(st, p, "fulfilled", OkResult(value))

\* Variant of reject: the error is handed to the host's reject unwrapped.
Mut_reject(st, p, error) == NativeSettle(st, p, "rejected", error)

\* constructor, line 35: error => resolve(new Result.Error(error))
reject(st, p, error) == NativeSettle(st, p, "fulfilled", ErrorResult(error))

\* constructor, line 36: the host's reject, handed over as it is
catcher(st, p, reason) == NativeSettle(st, p, "rejected", reason)

\* new Result.Promise(...): a fresh pending promise; its id is returned in ret.
NewPromise(st0) ==
    CHOOSE result \in {
    [st EXCEPT !.promises = Append(st.promises, PendingPromise),
               !.ret = RP(Len(st.promises) + 1)]
    : st \in {st0}} : TRUE

\* super.then(onFulfilled, onRejected) on promise src.  The host derives its
\* result promise through the species constructor, which is ResultPromise:
\* the derived promise's resolve and reject are the wrappers of lines 34-35.
NativeThen(st0, src, onFulfilled, onRejected) ==
    CHOOSE result \in {
    LET st1 == NewPromise(st)
        cap == st1.ret.id
        s == st1.promises[src]
    IN IF s.state = "pending"
       THEN [st1 EXCEPT !.promises[src].reactions =
                 Append(s.reactions,
                        [onFulfilled |-> onFulfilled, onRejected |-> onRejected,
                         cap |-> cap])]
       ELSE [st1 EXCEPT !.jobs =
                 Append(st1.jobs,
                        Job(IF s.state = "fulfilled" THEN onFulfilled ELSE onRejected,
                            s.value, cap))]
    : st \in {st0}} : TRUE

\* then of a foreign thenable f: register both callbacks; they run as jobs once
\* f has completed.  The foreign thenable's own derived future is not observed.
ForeignThen(st0, f, onFulfilled, onRejected) ==
    CHOOSE result \in {
    LET s == st.foreign[f]
    IN IF s.state = "pending"
       THEN [st EXCEPT !.foreign[f].reactions =
                 Append(s.reactions,
                        [onFulfilled |-> onFulfilled, onRejected |-> onRejected,
                         cap |-> 0])]
       ELSE [st EXCEPT !.jobs =
                 Append(st.jobs,
                        Job(IF s.state = "fulfilled" THEN onFulfilled ELSE onRejected,
                            s.value, 0))]
    : st \in {st0}} : TRUE

\* Variant of then: without onthrow, a fault of the source is settled as a
\* failure (reject in place of catcher on line 81).
Mut_then(st0, src, onresult, onthrow) ==
    CHOOSE result \in {
    LET st1 == NewPromise(st)
        P == st1.ret.id
        st2 == NativeThen(st1, src,
                   Wrapped("thenOnResult", P, onresult),
                   IF onthrow.kind # "null"
                   THEN Wrapped("thenOnThrow", P, onthrow)
                   ELSE Closure("reject", P, 0))
    IN [st2 EXCEPT !.ret = RP(P)]
    : st \in {st0}} : TRUE

\* ResultPromise.then(onresult, onthrow), lines 48-83.
then(st0, src, onresult, onthrow) ==
    CHOOSE result \in {
    LET st1 == NewPromise(st)
        P == st1.ret.id
        st2 == NativeThen(st1, src,
                   Wrapped("thenOnResult", P, onresult),
                   IF onthrow.kind # "null"
                   THEN Wrapped("thenOnThrow", P, onthrow)
                   ELSE Closure("catcher", P, 0))
    IN [st2 EXCEPT !.ret = RP(P)]
    : st \in {st0}} : TRUE

\* Variant of handleValueResolution: a foreign thenable's rejection goes to
\* rejecter (as ResultPromise.from does) instead of catcher.
Mut_handleValueResolution_foreign(st0, value, target) ==
    CHOOSE result \in {
    IF isThenable(value)
    THEN IF value.tag = "rp"
         THEN then(st, value.id, Closure("hvrResult", target, 0),
                   Closure("catcher", target, 0))
         ELSE ForeignThen(st, value.id, Closure("resolve", target, 0),
                          Closure("reject", target, 0))
    ELSE IF is(value)
         THEN IF value.ok THEN resolve(st, target, value.value)
                          ELSE reject(st, target, value.error)
         ELSE resolve(st, target, value)
    : st \in {st0}} : TRUE

\* Variant of handleValueResolution: a returned Result is not unwrapped (the
\* Result.is branch is missing).
Mut_handleValueResolution_result(st0, value, target) ==
    CHOOSE result \in {
    IF isThenable(value)
    THEN IF value.tag = "rp"
         THEN then(st, value.id, Closure("hvrResult", target, 0),
                   Closure("catcher", target, 0))
         ELSE ForeignThen(st, value.id, Closure("resolve", target, 0),
                          Closure("catcher", target, 0))
    ELSE resolve(st, target, value)
    : st \in {st0}} : TRUE

\* Variant of handleValueResolution: the then on a returned ResultPromise is
\* given no fault handler (catcher missing on line 181).
Mut_handleValueResolution_rp(st0, value, target) ==
    CHOOSE result \in {
    IF isThenable(value)
    THEN IF value.tag = "rp"
         THEN then(st, value.id, Closure("hvrResult", target, 0), Null)
         ELSE ForeignThen(st, value.id, Closure("resolve", target, 0),
                          Closure("catcher", target, 0))
    ELSE IF is(value)
         THEN IF value.ok THEN resolve(st, target, value.value)
                          ELSE reject(st, target, value.error)
         ELSE resolve(st, target, value)
    : st \in {st0}} : TRUE

\* handleValueResolution(value, resolver, rejecter, catcher), lines 169-193;
\* the three capabilities are those of promise `target`.
handleValueResolution(st0, value, target) ==
    CHOOSE result \in {
    IF isThenable(value)
    THEN IF value.tag = "rp"
         THEN then(st, value.id, Closure("hvrResult", target, 0),
                   Closure("catcher", target, 0))
         ELSE ForeignThen(st, value.id, Closure("resolve", target, 0),
                          Closure("catcher", target, 0))
    ELSE IF is(value)
         THEN IF value.ok THEN resolve(st, target, value.value)
                          ELSE reject(st, target, value.error)
         ELSE resolve(st, target, value)
    : st \in {st0}} : TRUE

(***************************************************************************)
(* Constructors.                                                           *)
(***************************************************************************)
\* ResultPromise.ok(value), lines 5-9: new Result.Promise(resolve => resolve(value))
ResultPromise_ok(st0, value) ==
    CHOOSE result \in {
    LET st1 == NewPromise(st) IN resolve(st1, st1.ret.id, value)
    : st \in {st0}} : TRUE

\* ResultPromise.error(error), lines 11-13
ResultPromise_error(st0, error) ==
    CHOOSE result \in {
    LET st1 == NewPromise(st) IN reject(st1, st1.ret.id, error)
    : st \in {st0}} : TRUE

\* new Result.Promise(executor), lines 26-38, for the executors
\*   (_, _, catcher) => catcher(reason)        kind "catcher"
\*   an executor that keeps its capabilities   kind "defer"
ResultPromise_new(st0, kind, reason) ==
    CHOOSE result \in {
    LET st1 == NewPromise(st)
        P == st1.ret.id
    IN IF kind = "catcher"
       THEN catcher(st1, P, reason)
       ELSE [st1 EXCEPT !.deferred = st1.deferred \cup {P}]
    : st \in {st0}} : TRUE

\* A foreign thenable, still pending: a promise of the host when `host`, else
\* an object with a then method.
NewForeign(st0, host) ==
    CHOOSE result \in {
    [st EXCEPT !.foreign = Append(st.foreign, PendingPromise),
               !.ret = IF host THEN HostPromise(Len(st.foreign) + 1)
                               ELSE FF(Len(st.foreign) + 1)]
    : st \in {st0}} : TRUE

\* Variant of from: the foreign rejection is passed to catcher, a fault.
Mut_ResultPromise_from(st0, functionOrPromise) ==
    CHOOSE result \in {
    LET promise == IF functionOrPromise.tag = "function"
                   THEN functionOrPromise.returns
                   ELSE functionOrPromise
        st1 == NewPromise(st)
        P == st1.ret.id
        st2 == ForeignThen(st1, promise.id,
                           Closure("resolve", P, 0), Closure("catcher", P, 0))
    IN [st2 EXCEPT !.ret = RP(P)]
    : st \in {st0}} : TRUE

\* ResultPromise.from(functionOrPromise), lines 15-24:
\*   promise = functionOrPromise instanceof Function
\*       ? functionOrPromise(...args) : functionOrPromise
\*   new Result.Promise((resolve, reject) => void promise.then(resolve, reject))
ResultPromise_from(st0, functionOrPromise) ==
    CHOOSE result \in {
    LET promise == IF functionOrPromise.tag = "function"
                   THEN functionOrPromise.returns
                   ELSE functionOrPromise
        st1 == NewPromise(st)
        P == st1.ret.id
        st2 == ForeignThen(st1, promise.id,
                           Closure("resolve", P, 0), Closure("reject", P, 0))
    IN [st2 EXCEPT !.ret = RP(P)]
    : st \in {st0}} : TRUE

(***************************************************************************)
(* User handlers.  What a handler does when invoked is an input of the     *)
(* step that invokes it.  A handler of call k produces the payload         *)
(* Fresh(k), which no executor and no other call produces, so that a       *)
(* payload names where it came from.                                       *)
(***************************************************************************)
Outcomes ==
    {"undefined", "plain", "ok", "error", "throw", "inc",
     "rpOk", "rpError", "rpFault", "rpPending", "foreign"}

Fresh(call) == Plain(MaxVal + call)

\* The characters of the string that an object without a toString of its own
\* converts to: "[object " and the name of its class (its Symbol.toStringTag),
\* which is Object for a Result, Promise for a promise and Generator for a
\* generator object.
ObjectString(class) ==
    <<"[", "o", "b", "j", "e", "c", "t", " ">> \o class \o <<"]">>

\* v => v + 1: the sum of two numbers, true counting as 1 and false as 0; NaN
\* when v is undefined or NaN; when v is a string or an object, v as a string
\* followed by "1".  A Result and a thenable that is no promise convert to
\* "[object Object]", a ResultPromise and a promise of the host to
\* "[object Promise]".
Inc(arg) ==
    CASE arg.tag = "plain" -> Plain(arg.n + 1)
      [] arg.tag \in {"undefined", "NaN"} -> NaN
      [] arg.tag = "string" -> Str(arg.chars \o <<"1">>)
      [] arg.tag = "boolean" -> Plain(IF arg.b THEN 2 ELSE 1)
      [] arg.tag \in {"ok", "error", "foreign"} -> Str(ObjectString(<<"O", "b", "j", "e", "c", "t">>) \o <<"1">>)
      [] arg.tag \in {"rp", "promise"} -> Str(ObjectString(<<"P", "r", "o", "m", "i", "s", "e">>) \o <<"1">>)

Returned(st, value) == [st EXCEPT !.ret = value, !.throws = FALSE]
Thrown(st, value) == [st EXCEPT !.ret = value, !.throws = TRUE]

\* What the handler of call `call` does under `outcome`, given arg.
Behave(st0, call, arg, outcome) ==
    CHOOSE result \in {
    LET x == Fresh(call)
    IN CASE outcome = "undefined" -> Returned(st, Undefined)
         [] outcome = "plain"     -> Returned(st, x)
         [] outcome = "ok"        -> Returned(st, OkResult(x))
         [] outcome = "error"     -> Returned(st, ErrorResult(x))
         [] outcome = "throw"     -> Thrown(st, x)
         [] outcome = "inc"       -> Returned(st, Inc(arg))
         [] outcome = "rpOk"      -> [ResultPromise_ok(st, x) EXCEPT !.throws = FALSE]
         [] outcome = "rpError"   -> [ResultPromise_error(st, x) EXCEPT !.throws = FALSE]
         [] outcome = "rpFault"   ->
                [ResultPromise_new(st, "catcher", x) EXCEPT !.throws = FALSE]
         [] outcome = "rpPending" ->
                [ResultPromise_new(st, "defer", x) EXCEPT !.throws = FALSE]
         [] outcome = "foreign"   -> [NewForeign(st, FALSE) EXCEPT !.throws = FALSE]
         [] outcome = "promise"   -> [NewForeign(st, TRUE) EXCEPT !.throws = FALSE]
    : st \in {st0}} : TRUE

\* Invocation of the user handler User(call, slot) with argument arg; the log
\* gets the argument and what the handler returned or raised.
InvokeUser(st0, call, slot, arg, outcome) ==
    CHOOSE result \in {
    LET r == Behave(st, call, arg, outcome)
    IN [r EXCEPT !.log = Append(r.log,
           [call |-> call, slot |-> slot, arg |-> arg, outcome |-> outcome,
            throws |-> r.throws, ret |-> r.ret])]
    : st \in {st0}} : TRUE

\* Variant of TryResolve: what the handler raises is settled as a failure.
Mut_TryResolve(r0, target) ==
    CHOOSE result \in {
    Returned(IF r.throws THEN reject(r, target, r.ret)
                         ELSE handleValueResolution(r, r.ret, target),
             Undefined)
    : r \in {r0}} : TRUE

\* try { value = handler(arg) } catch (e) { return catcher(e) }
\* handleValueResolution(value, resolve, reject, catcher)
\* with the capabilities of `target`: the tail shared by lines 61-68, 72-79
\* and 95-102.  r is the state after the handler ran.
TryResolve(r0, target) ==
    CHOOSE result \in {
    Returned(IF r.throws THEN catcher(r, target, r.ret)
                         ELSE handleValueResolution(r, r.ret, target),
             Undefined)
    : r \in {r0}} : TRUE

\* value = fn(arg); handleValueResolution(value, resolve, reject, catcher)
\* with no try around fn: what fn raises leaves the closure.  Lines 115-117,
\* 130-134, 147-149, 162-164.
CallResolve(r0, target) ==
    CHOOSE result \in {
    IF r.throws THEN r
    ELSE Returned(handleValueResolution(r, r.ret, target), Undefined)
    : r \in {r0}} : TRUE

\* Invocation of a handler the program supplied.
InvokeHandler(st0, h, arg, outcome) ==
    CHOOSE result \in {
    IF h.kind = "observer"
    THEN InvokeUser(st, h.call, h.slot, arg, "undefined")
    ELSE InvokeUser(st, h.call, h.slot, arg, outcome)
    : st \in {st0}} : TRUE

\* Variant of Call: map and andThen do not test result.ok, so fn is invoked on
\* a failure too (with result.value, which a failure does not have).
Mut_Call(st0, h, arg, outcome) ==
    CHOOSE result \in {
    CASE h.kind \in {"user", "observer"} -> InvokeHandler(st, h, arg, outcome)
      \* catch, lines 94-103
      [] h.kind = "catchWrapper" ->
            TryResolve(InvokeHandler(st, h.h, arg, outcome), h.target)
      \* map and andThen without the test of result.ok
      [] h.kind \in {"mapFn", "andThenFn"} ->
            CallResolve(InvokeUser(st, h.call, "fn",
                                   IF arg.ok THEN arg.value ELSE Undefined, outcome),
                        h.target)
      \* mapOrElse, lines 129-135
      [] h.kind = "mapOrElseFn" ->
            CallResolve(IF arg.ok
                        THEN InvokeUser(st, h.call, "fn", arg.value, outcome)
                        ELSE InvokeUser(st, h.call, "defaultValue", arg.error, outcome),
                        h.target)
      \* orElse, lines 157-165
      [] h.kind = "orElseFn" ->
            IF arg.ok
            THEN Returned(resolve(st, h.target, arg.value), Undefined)
            ELSE CallResolve(InvokeUser(st, h.call, "fn", arg.error, outcome), h.target)
      \* handleValueResolution, lines 178-180
      [] h.kind = "hvrResult" ->
            Returned(IF arg.ok THEN resolve(st, h.target, arg.value)
                               ELSE reject(st, h.target, arg.error),
                     Undefined)
      \* handleValueResolution, line 181: catcher passed as onthrow
      [] h.kind = "catcher" -> Returned(catcher(st, h.target, arg), Undefined)
      \* await: the resolving functions of the promise the host awaits; the
      \* function that awaits is resumed by a job of its own
      [] h.kind = "awaitResolve" ->
            Returned([st EXCEPT !.jobs =
                         Append(st.jobs, Job(Closure("awaitFulfilled", 0, 0), arg, 0))],
                     Undefined)
      [] h.kind = "awaitReject" ->
            Returned([st EXCEPT !.jobs =
                         Append(st.jobs, Job(Closure("awaitRejected", 0, 0), arg, 0))],
                     Undefined)
    : st \in {st0}} : TRUE

\* Invocation of a closure that ResultPromise.then received as onresult or
\* onthrow: a user handler, or one of the closures the class itself passes.
Call(st0, h, arg, outcome) ==
    CHOOSE result \in {
    CASE h.kind \in {"user", "observer"} -> InvokeHandler(st, h, arg, outcome)
      \* catch, lines 94-103
      [] h.kind = "catchWrapper" ->
            TryResolve(InvokeHandler(st, h.h, arg, outcome), h.target)
      \* map, lines 110-118, and andThen, lines 142-150
      [] h.kind \in {"mapFn", "andThenFn"} ->
            IF ~arg.ok
            THEN Returned(reject(st, h.target, arg.error), Undefined)
            ELSE CallResolve(InvokeUser(st, h.call, "fn", arg.value, outcome), h.target)
      \* mapOrElse, lines 129-135
      [] h.kind = "mapOrElseFn" ->
            CallResolve(IF arg.ok
                        THEN InvokeUser(st, h.call, "fn", arg.value, outcome)
                        ELSE InvokeUser(st, h.call, "defaultValue", arg.error, outcome),
                        h.target)
      \* orElse, lines 157-165
      [] h.kind = "orElseFn" ->
            IF arg.ok
            THEN Returned(resolve(st, h.target, arg.value), Undefined)
            ELSE CallResolve(InvokeUser(st, h.call, "fn", arg.error, outcome), h.target)
      \* handleValueResolution, lines 178-180
      [] h.kind = "hvrResult" ->
            Returned(IF arg.ok THEN resolve(st, h.target, arg.value)
                               ELSE reject(st, h.target, arg.error),
                     Undefined)
      \* handleValueResolution, line 181: catcher passed as onthrow
      [] h.kind = "catcher" -> Returned(catcher(st, h.target, arg), Undefined)
      \* await: the resolving functions of the promise the host awaits; the
      \* function that awaits is resumed by a job of its own
      [] h.kind = "awaitResolve" ->
            Returned([st EXCEPT !.jobs =
                         Append(st.jobs, Job(Closure("awaitFulfilled", 0, 0), arg, 0))],
                     Undefined)
      [] h.kind = "awaitReject" ->
            Returned([st EXCEPT !.jobs =
                         Append(st.jobs, Job(Closure("awaitRejected", 0, 0), arg, 0))],
                     Undefined)
    : st \in {st0}} : TRUE

\* The body of a reaction job: the callback that super.then or a foreign then
\* was given, applied to the settled value.
RunReaction(st0, cb, arg, outcome) ==
    CHOOSE result \in {
    CASE cb.kind = "thenOnResult" ->        \* then, lines 54-69
            IF cb.h.kind = "null"
            THEN Returned(IF arg.ok THEN resolve(st, cb.target, arg.value)
                                    ELSE reject(st, cb.target, arg.error),
                          Undefined)
            ELSE TryResolve(Call(st, cb.h, arg, outcome), cb.target)
      [] cb.kind = "thenOnThrow" ->         \* then, lines 71-80
            TryResolve(Call(st, cb.h, arg, outcome), cb.target)
      [] cb.kind = "catcher" ->             \* then, line 81
            Returned(catcher(st, cb.target, arg), Undefined)
      [] cb.kind = "resolve" ->             \* lines 23 and 183
            Returned(resolve(st, cb.target, arg), Undefined)
      [] cb.kind = "reject" ->              \* line 23
            Returned(reject(st, cb.target, arg), Undefined)
      \* andThenAsync, ok.ts lines 166-168, and orElseAsync, error.ts lines
      \* 144-146:  value => value.ok ? resolve(value.value) : reject(value.error)
      \* A value that is no Result has neither property, so it is rejected
      \* with undefined; on undefined the property access raises.
      [] cb.kind = "unwrapResult" ->
            IF is(arg)
            THEN Returned(IF arg.ok THEN resolve(st, cb.target, arg.value)
                                    ELSE reject(st, cb.target, arg.error),
                          Undefined)
            ELSE IF arg.tag = "undefined"
            THEN Thrown(st, TypeError)
            ELSE Returned(reject(st, cb.target, Undefined), Undefined)
      \* await p, the job the host queued for the thenable p: it calls
      \* p.then(resolveFn, rejectFn), the overridden then
      [] cb.kind = "thenableJob" ->
            Returned(then(st, cb.target, Closure("awaitResolve", 0, 0),
                          Closure("awaitReject", 0, 0)),
                     Undefined)
      \* await p, the job that resumes the awaiting function
      [] cb.kind = "awaitFulfilled" ->
            Returned([st EXCEPT !.awaited = [status |-> "result", value |-> arg]],
                     Undefined)
      [] cb.kind = "awaitRejected" ->
            Returned([st EXCEPT !.awaited = [status |-> "thrown", value |-> arg]],
                     Undefined)
    : st \in {st0}} : TRUE

\* A promise reaction job: run the callback, then complete the promise that
\* super.then derived (cap), through the wrappers of lines 34-35: with
\* Success(returned value), or with Failure(raised value).
ReactionJob(st0, job, outcome) ==
    CHOOSE result \in {
    LET r == RunReaction(st, job.cb, job.arg, outcome)
    IN IF job.cap = 0 THEN r
       ELSE IF r.throws THEN reject(r, job.cap, r.ret)
                        ELSE resolve(r, job.cap, r.ret)
    : st \in {st0}} : TRUE

(***************************************************************************)
(* The combinators.  `call` is the index of the call, naming its handlers. *)
(***************************************************************************)
\* ResultPromise.catch(onthrow), lines 85-104.  super.catch(f) is the host's
\* Promise.prototype.catch, which invokes this.then(undefined, f): the
\* overridden then.
catch(st0, src, onthrow) ==
    CHOOSE result \in {
    IF onthrow.kind = "null"
    THEN [st EXCEPT !.ret = RP(src)]
    ELSE LET st1 == NewPromise(st)
             O == st1.ret.id
             st2 == then(st1, src, Null, Wrapped("catchWrapper", O, onthrow))
         IN [st2 EXCEPT !.ret = RP(O)]
    : st \in {st0}} : TRUE

\* The shape shared by map, mapOrElse, andThen and orElse:
\*   new Result.Promise((resolve, reject, catcher) => void this.then(closure))
Derive(st0, src, kind, call) ==
    CHOOSE result \in {
    LET st1 == NewPromise(st)
        O == st1.ret.id
        st2 == then(st1, src, Closure(kind, O, call), Null)
    IN [st2 EXCEPT !.ret = RP(O)]
    : st \in {st0}} : TRUE

\* ResultPromise.map(fn), lines 106-119
map(st, src, call) == Derive(st, src, "mapFn", call)

\* ResultPromise.mapOrElse(defaultValue, fn), lines 121-136
mapOrElse(st, src, call) == Derive(st, src, "mapOrElseFn", call)

\* ResultPromise.andThen(fn), lines 138-151
andThen(st, src, call) == Derive(st, src, "andThenFn", call)

\* ResultPromise.orElse(fn), lines 153-166
orElse(st, src, call) == Derive(st, src, "orElseFn", call)

(***************************************************************************)
(* The asynchronous methods of a Result, which make a ResultPromise of     *)
(* what fn returns.  `this` is the Result, `call` names fn in the log, and *)
(* `outcome` is what fn does: it returns a ResultPromise or a foreign      *)
(* thenable, or it raises, which leaves the method.                        *)
(***************************************************************************)
\* The shape shared by the methods that call fn:
\*   const promise = fn(arg);
\*   return promise instanceof ResultPromise
\*       ? promise
\*       : new ResultPromise((resolve, reject, catcher) =>
\*             void promise.then(onFulfilled, catcher));
\* where onFulfilled is resolve (kind "resolve") or the closure that unwraps a
\* Result (kind "unwrapResult").
Adopt(st0, call, slot, arg, outcome, kind) ==
    CHOOSE result \in {
    LET r == InvokeUser(st, call, slot, arg, outcome)
    IN IF r.throws \/ r.ret.tag = "rp"
       THEN r
       ELSE LET st1 == NewPromise(r)
                P == st1.ret.id
                st2 == ForeignThen(st1, r.ret.id,
                                   Closure(kind, P, 0), Closure("catcher", P, 0))
            IN [st2 EXCEPT !.ret = RP(P)]
    : st \in {st0}} : TRUE

\* r.mapAsync(fn)
\*   OkResult.mapAsync(fn), ok.ts lines 61-70: the shared shape with resolve
\*   ErrorResult.mapAsync(), error.ts lines 43-45: ResultPromise.error(this.error)
Result_mapAsync(st, this, call, outcome) ==
    IF this.ok THEN Adopt(st, call, "fn", this.value, outcome, "resolve")
               ELSE ResultPromise_error(st, this.error)

\* r.mapOrElseAsync(defaultValue, fn)
\*   OkResult.mapOrElseAsync(_, fn), ok.ts lines 80-89: fn(this.value)
\*   ErrorResult.mapOrElseAsync(defaultValue), error.ts lines 55-64:
\*     defaultValue(this.error)
Result_mapOrElseAsync(st, this, call, outcome) ==
    IF this.ok THEN Adopt(st, call, "fn", this.value, outcome, "resolve")
               ELSE Adopt(st, call, "defaultValue", this.error, outcome, "resolve")

\* r.andThenAsync(fn)
\*   OkResult.andThenAsync(fn), ok.ts lines 157-171: the shared shape with the
\*     closure that unwraps the Result
\*   ErrorResult.andThenAsync(), error.ts lines 123-125:
\*     Result.Promise.error(this.error)
Result_andThenAsync(st, this, call, outcome) ==
    IF this.ok THEN Adopt(st, call, "fn", this.value, outcome, "unwrapResult")
               ELSE ResultPromise_error(st, this.error)

\* r.orElseAsync(fn)
\*   OkResult.orElseAsync(), ok.ts lines 181-183:
\*     new ResultPromise(resolve => resolve(this.value))
\*   ErrorResult.orElseAsync(fn), error.ts lines 135-149: the shared shape with
\*     the closure that unwraps the Result
Result_orElseAsync(st0, this, call, outcome) ==
    CHOOSE result \in {
    IF this.ok
    THEN LET st1 == NewPromise(st) IN resolve(st1, st1.ret.id, this.value)
    ELSE Adopt(st, call, "fn", this.error, outcome, "unwrapResult")
    : st \in {st0}} : TRUE

\* await p.  p is a thenable and no promise of the host's own constructor, so
\* evaluating the await only queues a job; that job calls
\* p.then(resolveFn, rejectFn), and the awaiting function is resumed by one
\* more job after resolveFn or rejectFn was called.  No ResultPromise is
\* returned to the script.
await(st0, src) ==
    CHOOSE result \in {
    [st EXCEPT !.jobs = Append(st.jobs, Job(Closure("thenableJob", src, 0), Undefined, 0)),
               !.ret = RP(0)]
    : st \in {st0}} : TRUE

(***************************************************************************)
(* The synchronous Result (src/src/impls/ok.ts, src/src/impls/error.ts,    *)
(* src/src/functions.ts).  A Result is an object with an identity: the     *)
(* heap holds the objects, Ref(id) is a reference to one.  The objects are *)
(* OkResult and ErrorResult records and generator objects, which are       *)
(* iterables that can be run through once.                                 *)
(***************************************************************************)
\* Longest array, string and argument list of the synchronous programs.
MaxLen == 2
\* Number of objects a program builds before it applies an operation.
MaxObjs == 2

Ref(id) == [tag |-> "ref", id |-> id]
\* An array with the given items.
Arr(items) == [tag |-> "array", items |-> items]
\* A generator object that has `items` left to yield.
Generator(items) == [tag |-> "generator", items |-> items]
\* new Error(message)
NewError(message) == [tag |-> "Error", message |-> message]

\* A new object on the heap; ret is the reference to it.
Alloc(st0, obj) ==
    CHOOSE result \in {
    [st EXCEPT !.heap = Append(st.heap, obj),
               !.ret = Ref(Len(st.heap) + 1),
               !.throws = FALSE]
    : st \in {st0}} : TRUE

\* functions.ts, lines 30-34: ok(value?) is new OkResult(value)
ok(st, value) == Alloc(st, OkResult(value))

\* functions.ts, lines 54-56: error(err) is new ErrorResult(err)
error(st, err) == Alloc(st, ErrorResult(err))

\* Result.is(value) for a value of a synchronous program: value instanceof
\* OkResult || value instanceof ErrorResult.
isResult(st, value) == value.tag = "ref" /\ is(st.heap[value.id])

\* helpers.isIterable: value instanceof Object and value[Symbol.iterator] is
\* a function.  Arrays, generator objects and Results are such objects; a
\* string has an iterator but is a primitive, no instance of Object.
isIterable(value) == value.tag \in {"array", "ref"}

\* What the function the program passes does: it returns a fresh plain value,
\* returns its argument, returns a new failure, or raises.
SyncOutcomes == {"plain", "same", "error", "throw"}

\* A call of the function a synchronous program passed as parameter `fn`
\* ("fn" or "defaultValue"); the invocation is recorded with the parameter,
\* its arguments and what it returned or raised.
CallAs(st0, fn, args, outcome) ==
    CHOOSE result \in {
    LET r == CASE outcome = "plain" -> Returned(st, Fresh(1))
               [] outcome = "same"  ->
                      Returned(st, IF args = <<>> THEN Undefined ELSE args[1])
               [] outcome = "error" -> error(st, Fresh(1))
               [] outcome = "throw" -> Thrown(st, Fresh(2))
               [] outcome = "true"  -> Returned(st, Bool(TRUE))
               [] outcome = "false" -> Returned(st, Bool(FALSE))
    IN [r EXCEPT !.invoked = Append(r.invoked,
           [fn |-> fn, args |-> args, throws |-> r.throws, ret |-> r.ret])]
    : st \in {st0}} : TRUE

\* fn(...args)
CallFn(st, args, outcome) == CallAs(st, "fn", args, outcome)

\* OkResult.map(fn), ok.ts lines 57-59: new OkResult(fn(this.value))
OkResult_map(st0, this, outcome) ==
    CHOOSE result \in {
    LET r == CallFn(st, <<st.heap[this].value>>, outcome)
    IN IF r.throws THEN r ELSE Alloc(r, OkResult(r.ret))
    : st \in {st0}} : TRUE

\* Variant of ErrorResult.map: fn is applied to the error, as mapErr does.
Mut_ErrorResult_map(st0, this, outcome) ==
    CHOOSE result \in {
    LET r == CallFn(st, <<st.heap[this].error>>, outcome)
    IN IF r.throws THEN r ELSE Alloc(r, ErrorResult(r.ret))
    : st \in {st0}} : TRUE

\* ErrorResult.map(), error.ts lines 39-41: return this
ErrorResult_map(st, this, outcome) == Returned(st, Ref(this))

\* OkResult.mapErr(), ok.ts lines 91-93: return this
OkResult_mapErr(st, this, outcome) == Returned(st, Ref(this))

\* ErrorResult.mapErr(fn), error.ts lines 66-68: new Result.Error(fn(this.error))
ErrorResult_mapErr(st0, this, outcome) ==
    CHOOSE result \in {
    LET r == CallFn(st, <<st.heap[this].error>>, outcome)
    IN IF r.throws THEN r ELSE Alloc(r, ErrorResult(r.ret))
    : st \in {st0}} : TRUE

\* OkResult.andThen(fn), ok.ts lines 153-155: return fn(this.value)
OkResult_andThen(st, this, outcome) == CallFn(st, <<st.heap[this].value>>, outcome)

\* ErrorResult.andThen(), error.ts lines 119-121: return this
ErrorResult_andThen(st, this, outcome) == Returned(st, Ref(this))

\* OkResult.or(), ok.ts lines 173-175: return this
OkResult_or(st, this, result) == Returned(st, Ref(this))

\* ErrorResult.or(result), error.ts lines 127-129: return result
ErrorResult_or(st, this, result) == Returned(st, result)

\* OkResult.orElse(), ok.ts lines 177-179: return this
OkResult_orElse(st, this, outcome) == Returned(st, Ref(this))

\* ErrorResult.orElse(fn), error.ts lines 131-133: return fn(this.error)
ErrorResult_orElse(st, this, outcome) == CallFn(st, <<st.heap[this].error>>, outcome)

\* Variant of and: the last failure of the sequence is returned, not the first.
Mut_and(st0, results) ==
    CHOOSE result \in {
    IF Len(results) = 0
    THEN ok(st, Undefined)
    ELSE LET failures == {i \in 1..Len(results) : ~st.heap[results[i].id].ok}
         IN IF failures # {}
            THEN Returned(st, results[CHOOSE i \in failures : \A j \in failures : j <= i])
            ELSE Returned(st, results[Len(results)])
    : st \in {st0}} : TRUE

\* and(results), functions.ts lines 226-240: ok() for an empty array, else
\* the first element that is not ok, else the last element.
and(st0, results) ==
    CHOOSE result \in {
    IF Len(results) = 0
    THEN ok(st, Undefined)
    ELSE LET failures == {i \in 1..Len(results) : ~st.heap[results[i].id].ok}
         IN IF failures # {}
            THEN Returned(st, results[CHOOSE i \in failures : \A j \in failures : i <= j])
            ELSE Returned(st, results[Len(results)])
    : st \in {st0}} : TRUE

\* or(results), functions.ts lines 278-292: ok() for an empty array, else the
\* first element that is ok, else the last element.
or(st0, results) ==
    CHOOSE result \in {
    IF Len(results) = 0
    THEN ok(st, Undefined)
    ELSE LET successes == {i \in 1..Len(results) : st.heap[results[i].id].ok}
         IN IF successes # {}
            THEN Returned(st, results[CHOOSE i \in successes : \A j \in successes : i <= j])
            ELSE Returned(st, results[Len(results)])
    : st \in {st0}} : TRUE

\* Variant of flatten: a failure whose error is a Result is flattened too.
Mut_flatten(st, result) ==
    LET r == st.heap[result.id]
    IN IF r.ok THEN Returned(st, r.value)
       ELSE IF isResult(st, r.error) THEN Returned(st, r.error)
       ELSE Returned(st, result)

\* flatten(result), functions.ts lines 343-349:
\*   result.ok ? result.value : result
flatten(st, result) ==
    IF st.heap[result.id].ok
    THEN Returned(st, st.heap[result.id].value)
    ELSE Returned(st, result)

\* OkResult.flatten(), ok.ts lines 189-193:
\*   Result.is(this.value) ? this.value : this
OkResult_flatten(st0, this) ==
    CHOOSE result \in {
    IF isResult(st, st.heap[this].value)
    THEN Returned(st, st.heap[this].value)
    ELSE Returned(st, Ref(this))
    : st \in {st0}} : TRUE

\* ErrorResult.flatten(), error.ts lines 155-157: return this
ErrorResult_flatten(st, this) == Returned(st, Ref(this))

\* Variant of from: no try around the call, what fn raises leaves from.
Mut_from(st0, outcome, args) ==
    CHOOSE result \in {
    LET r == CallFn(st, args, outcome)
    IN IF r.throws THEN r ELSE Alloc(r, OkResult(r.ret))
    : st \in {st0}} : TRUE

\* from(fn, ...args), functions.ts lines 94-102:
\*   try { return new OkResult(fn(...args)) } catch (err) { return new ErrorResult(err) }
from(st0, outcome, args) ==
    CHOOSE result \in {
    LET r == CallFn(st, args, outcome)
    IN IF r.throws THEN Alloc(r, ErrorResult(r.ret))
                   ELSE Alloc(r, OkResult(r.ret))
    : st \in {st0}} : TRUE

\* Variant of OkResult[Symbol.iterator]: the value is always yielded as the
\* single element, an iterable value too.
Mut_OkResult_iterator(st, this) == Returned(st, <<st.heap[this].value>>)

\* [...r]: the items the iterator of Result `this` yields until it is done.
\*   OkResult[Symbol.iterator](), ok.ts lines 24-45: the iterator of
\*     this.value if isIterable(this.value), else an iterator that yields
\*     this.value once;
\*   ErrorResult[Symbol.iterator](), error.ts lines 23-27: done at once.
\* The iterator of an array yields its items; that of a Result is the one
\* above; a generator object is its own iterator, which yields what it has
\* left and is exhausted from then on.
RECURSIVE OkResult_iterator(_, _)
OkResult_iterator(st0, this) ==
    CHOOSE result \in {
    LET value == st.heap[this].value
    IN IF ~isIterable(value)
       THEN Returned(st, <<value>>)
       ELSE IF value.tag = "array"
       THEN Returned(st, value.items)
       ELSE LET obj == st.heap[value.id]
            IN CASE obj.tag = "generator" ->
                       Returned([st EXCEPT !.heap[value.id] = Generator(<<>>)], obj.items)
                 [] obj.tag = "ok" -> OkResult_iterator(st, value.id)
                 [] obj.tag = "error" -> Returned(st, <<>>)
    : st \in {st0}} : TRUE

\* ErrorResult[Symbol.iterator](), error.ts lines 23-27
ErrorResult_iterator(st, this) == Returned(st, <<>>)

\* const first = [...r]; const second = [...r]
IterateTwice(st0, this) ==
    CHOOSE result \in {
    LET a == IF st.heap[this].ok THEN OkResult_iterator(st, this)
                                 ELSE ErrorResult_iterator(st, this)
        b == IF a.heap[this].ok THEN OkResult_iterator(a, this)
                                ELSE ErrorResult_iterator(a, this)
    IN Returned(b, <<a.ret, b.ret>>)
    : st \in {st0}} : TRUE

\* [...r.values()] on a Success.  OkResult.values(), ok.ts lines 105-112, is
\* a generator function:
\*   if (isIterable(this.value)) return this.value[Symbol.iterator]();
\*   yield this.value;
\* With an iterable value the generator finishes at once: the iterator it
\* obtained is its return value, and nothing is yielded.  Obtaining the
\* iterator of an array, a generator object or a Result takes no item from it.
OkResult_values(st0, this) ==
    CHOOSE result \in {
    IF isIterable(st.heap[this].value)
    THEN Returned(st, <<>>)
    ELSE Returned(st, <<st.heap[this].value>>)
    : st \in {st0}} : TRUE

\* [...r.values()] on a Failure.  ErrorResult.values(), error.ts lines 80-83:
\* return
ErrorResult_values(st, this) == Returned(st, <<>>)

\* for (const value of items) fn(value): fn is called with each item in turn;
\* what fn raises ends the loop and leaves it.
RECURSIVE CallEach(_, _, _)
CallEach(st0, items, outcome) ==
    CHOOSE result \in {
    IF items = <<>>
    THEN Returned(st, Undefined)
    ELSE LET r == CallFn(st, <<Head(items)>>, outcome)
         IN IF r.throws THEN r ELSE CallEach(r, Tail(items), outcome)
    : st \in {st0}} : TRUE

\* OkResult.forEach(fn), ok.ts lines 114-123:
\*   if (isIterable(this.value)) { for (const value of this.value) fn(value) }
\*   else fn(this.value)
\* The loop runs the iterator of the value: the items of an array, what a
\* generator object has left, the iteration of a Result.  A generator object
\* is finished when the loop is left, whether it was run to its end or closed
\* because fn raised.
OkResult_forEach(st0, this, outcome) ==
    CHOOSE result \in {
    LET value == st.heap[this].value
    IN IF isIterable(value)
       THEN IF value.tag = "array"
            THEN CallEach(st, value.items, outcome)
            ELSE LET obj == st.heap[value.id]
                     it == CASE obj.tag = "generator" ->
                                   Returned([st EXCEPT !.heap[value.id] = Generator(<<>>)],
                                            obj.items)
                             [] obj.tag = "ok" -> OkResult_iterator(st, value.id)
                             [] obj.tag = "error" -> ErrorResult_iterator(st, value.id)
                 IN CallEach(it, it.ret, outcome)
       ELSE LET r == CallFn(st, <<value>>, outcome)
            IN IF r.throws THEN r ELSE Returned(r, Undefined)
    : st \in {st0}} : TRUE

\* ErrorResult.forEach(), error.ts lines 85-87: return
ErrorResult_forEach(st, this, outcome) == Returned(st, Undefined)

\* r.isOkAnd(fn)
\*   OkResult.isOkAnd(fn), ok.ts lines 47-51: return fn(this.value)
\*   ErrorResult.isOkAnd(), error.ts lines 29-31: return false
Result_isOkAnd(st, this, outcome) ==
    IF st.heap[this].ok THEN CallFn(st, <<st.heap[this].value>>, outcome)
                        ELSE Returned(st, Bool(FALSE))

\* r.isErrorAnd(fn)
\*   OkResult.isErrorAnd(), ok.ts lines 53-55: return false
\*   ErrorResult.isErrorAnd(fn), error.ts lines 33-37: return fn(this.error)
Result_isErrorAnd(st, this, outcome) ==
    IF st.heap[this].ok THEN Returned(st, Bool(FALSE))
                        ELSE CallFn(st, <<st.heap[this].error>>, outcome)

\* r.mapOr(defaultValue, fn)
\*   OkResult.mapOr(_, fn), ok.ts lines 72-74: return fn(this.value)
\*   ErrorResult.mapOr(defaultValue), error.ts lines 47-49: return defaultValue
Result_mapOr(st, this, defaultValue, outcome) ==
    IF st.heap[this].ok THEN CallFn(st, <<st.heap[this].value>>, outcome)
                        ELSE Returned(st, defaultValue)

\* r.mapOrElse(defaultValue, fn)
\*   OkResult.mapOrElse(_, fn), ok.ts lines 76-78: return fn(this.value)
\*   ErrorResult.mapOrElse(defaultValue), error.ts lines 51-53:
\*     return defaultValue(this.error)
Result_mapOrElse(st, this, outcome) ==
    IF st.heap[this].ok
    THEN CallFn(st, <<st.heap[this].value>>, outcome)
    ELSE CallAs(st, "defaultValue", <<st.heap[this].error>>, outcome)

\* r.inspect(fn)
\*   OkResult.inspect(fn), ok.ts lines 95-99: fn(this.value); return this
\*   ErrorResult.inspect(), error.ts lines 70-72: return this
Result_inspect(st0, this, outcome) ==
    CHOOSE result \in {
    IF st.heap[this].ok
    THEN LET r == CallFn(st, <<st.heap[this].value>>, outcome)
         IN IF r.throws THEN r ELSE Returned(r, Ref(this))
    ELSE Returned(st, Ref(this))
    : st \in {st0}} : TRUE

\* r.inspectError(fn)
\*   OkResult.inspectError(), ok.ts lines 101-103: return this
\*   ErrorResult.inspectError(fn), error.ts lines 74-78:
\*     fn(this.error); return this
Result_inspectError(st0, this, outcome) ==
    CHOOSE result \in {
    IF st.heap[this].ok
    THEN Returned(st, Ref(this))
    ELSE LET r == CallFn(st, <<st.heap[this].error>>, outcome)
         IN IF r.throws THEN r ELSE Returned(r, Ref(this))
    : st \in {st0}} : TRUE

\* r.unwrapOrElse(defaultValue)
\*   OkResult.unwrapOrElse(), ok.ts lines 137-139: return this.value
\*   ErrorResult.unwrapOrElse(defaultValue), error.ts lines 107-109:
\*     return defaultValue(this.error)
Result_unwrapOrElse(st, this, outcome) ==
    IF st.heap[this].ok
    THEN Returned(st, st.heap[this].value)
    ELSE CallAs(st, "defaultValue", <<st.heap[this].error>>, outcome)

\* r.clone()
\*   OkResult.clone(), ok.ts lines 185-187: new OkResult(this.value)
\*   ErrorResult.clone(), error.ts lines 151-153: new Result.Error(this.error)
Result_clone(st, this) ==
    IF st.heap[this].ok THEN Alloc(st, OkResult(st.heap[this].value))
                        ELSE Alloc(st, ErrorResult(st.heap[this].error))

\* The decimal digits of a natural number.
RECURSIVE Decimal(_)
Decimal(n) ==
    LET digits == <<"0", "1", "2", "3", "4", "5", "6", "7", "8", "9">>
    IN IF n < 10 THEN <<digits[n + 1]>>
       ELSE Decimal(n \div 10) \o <<digits[(n % 10) + 1]>>

\* The characters of the string that  "" + value  is in a program whose heap
\* is h: a number in decimal, an array as its items joined by commas
\* (undefined as the empty string), a generator object as
\* "[object Generator]", a Result, which has no toString of its own, as
\* "[object Object]".
RECURSIVE toString(_, _)
toString(h, value) ==
    CASE value.tag = "undefined" -> <<"u", "n", "d", "e", "f", "i", "n", "e", "d">>
      [] value.tag = "NaN" -> <<"N", "a", "N">>
      [] value.tag = "boolean" ->
            IF value.b THEN <<"t", "r", "u", "e">> ELSE <<"f", "a", "l", "s", "e">>
      [] value.tag = "plain" -> Decimal(value.n)
      [] value.tag = "string" -> value.chars
      [] value.tag = "array" ->
            LET item(i) == IF value.items[i].tag = "undefined" THEN <<>>
                           ELSE toString(h, value.items[i])
                RECURSIVE Join(_)
                Join(k) == IF k = 0 THEN <<>>
                           ELSE IF k = 1 THEN item(1)
                           ELSE Join(k - 1) \o <<",">> \o item(k)
            IN Join(Len(value.items))
      [] value.tag = "ref" ->
            IF h[value.id].tag = "generator"
            THEN ObjectString(<<"G", "e", "n", "e", "r", "a", "t", "o", "r">>)
            ELSE ObjectString(<<"O", "b", "j", "e", "c", "t">>)

\* A function passed as an argument, which behaves as `outcome` says.
Callback(outcome) == [tag |-> "callback", outcome |-> outcome]

\* OkResult.expect(), ok.ts lines 125-127: return this.value
OkResult_expect(st, this, msgOrFn) == Returned(st, st.heap[this].value)

\* ErrorResult.expect(msgOrFn), error.ts lines 89-97:
\*   a string: throw new Error(msgOrFn + ": " + this.error)
\*   else:     throw msgOrFn(this.error)
ErrorResult_expect(st0, this, msgOrFn) ==
    CHOOSE result \in {
    IF msgOrFn.tag = "string"
    THEN Thrown(st, NewError(Str(msgOrFn.chars \o <<":", " ">>
                                     \o toString(st.heap, st.heap[this].error))))
    ELSE LET r == CallFn(st, <<st.heap[this].error>>, msgOrFn.outcome)
         IN Thrown(r, r.ret)
    : st \in {st0}} : TRUE

\* OkResult.unwrap(), ok.ts lines 129-131: return this.value
OkResult_unwrap(st, this) == Returned(st, st.heap[this].value)

\* Variant of ErrorResult.unwrap: the error is returned, not raised.
Mut_ErrorResult_unwrap(st, this) == Returned(st, st.heap[this].error)

\* ErrorResult.unwrap(), error.ts lines 99-101: throw this.error
ErrorResult_unwrap(st, this) == Thrown(st, st.heap[this].error)

\* OkResult.unwrapError(fn?), ok.ts lines 141-147:
\*   if (fn) throw fn(this.value); throw this.value
OkResult_unwrapError(st0, this, fn) ==
    CHOOSE result \in {
    IF fn.tag = "callback"
    THEN LET r == CallFn(st, <<st.heap[this].value>>, fn.outcome)
         IN Thrown(r, r.ret)
    ELSE Thrown(st, st.heap[this].value)
    : st \in {st0}} : TRUE

\* ErrorResult.unwrapError(), error.ts lines 111-113: return this.error
ErrorResult_unwrapError(st, this, fn) == Returned(st, st.heap[this].error)

(***************************************************************************)
(* The state machine.  A program is a synchronous script that builds a     *)
(* source and calls combinators on the promises it holds; the script ends  *)
(* at its await, or when control returns to the host, which then runs the  *)
(* reaction jobs and, whenever none is left, the next external event.      *)
(***************************************************************************)
VARIABLES promises, foreign, jobs, log, awaited, deferred, calls, script,
          firstcap, heap, invoked, last

\* The state of an asynchronous program and that of a synchronous one.
asyncvars == <<promises, foreign, jobs, log, awaited, deferred, calls, script, firstcap>>
syncvars == <<heap, invoked, last>>

vars == <<promises, foreign, jobs, log, awaited, deferred, calls, script, firstcap,
          heap, invoked, last>>

Cur ==
    [promises |-> promises, foreign |-> foreign, jobs |-> jobs, log |-> log,
     awaited |-> awaited, deferred |-> deferred, ret |-> Undefined,
     throws |-> FALSE]

Commit(st0) ==
    \E st \in {st0} :
        /\ promises' = st.promises
        /\ foreign' = st.foreign
        /\ jobs' = st.jobs
        /\ log' = st.log
        /\ awaited' = st.awaited
        /\ deferred' = st.deferred

Combinators == {"then", "catch", "map", "mapOrElse", "andThen", "orElse"}

\* The index the next call gets.
NextCall == Len(calls) + 1

\* The promises the program holds: the source and what the calls returned.
Visible == {calls[i].out : i \in 1..Len(calls)} \ {0}

NCalls(ops) == Cardinality({i \in 1..Len(calls) : calls[i].op \in ops})

\* A call of the script: the operation, the promise it was called on (src),
\* the promise it returned (out), which handlers it was given, and the
\* argument of a constructor.
CallRecord(op, src, out, onresult, onthrow, arg) ==
    [op |-> op, src |-> src, out |-> out, onresult |-> onresult,
     onthrow |-> onthrow, arg |-> arg]

Record(op, src, st0, onresult, onthrow, arg) ==
    \E st \in {st0} :
        /\ Commit(st)
        /\ calls' = Append(calls, CallRecord(op, src, IF st.throws THEN 0 ELSE st.ret.id,
                                             onresult, onthrow, arg))
        /\ script' = (op # "await" /\ ~st.throws)
        /\ UNCHANGED firstcap
        /\ UNCHANGED syncvars

\* No operation applied yet.
NoCall == [op |-> "none"]

Init ==
    /\ promises = <<>>
    /\ foreign = <<>>
    /\ jobs = <<>>
    /\ log = <<>>
    /\ awaited = EmptyState.awaited
    /\ deferred = {}
    /\ calls = <<>>
    /\ script = TRUE
    /\ firstcap = <<>>
    /\ heap = <<>>
    /\ invoked = <<>>
    /\ last = NoCall

\* const p = Result.Promise.ok(v)
New_ok ==
    \E v \in Vals :
        /\ calls = <<>>
        /\ Record("ok", 0, ResultPromise_ok(Cur, Plain(v)), FALSE, FALSE, Plain(v))

\* const p = Result.Promise.error(e)
New_error ==
    \E e \in Vals :
        /\ calls = <<>>
        /\ Record("error", 0, ResultPromise_error(Cur, Plain(e)), FALSE, FALSE, Plain(e))

\* const p = new Result.Promise((_, _, catcher) => catcher(r))
New_fault ==
    \E r \in Vals :
        /\ calls = <<>>
        /\ Record("fault", 0, ResultPromise_new(Cur, "catcher", Plain(r)),
                  FALSE, FALSE, Plain(r))

\* const p = new Result.Promise(executor), the executor keeping its capabilities
New_deferred ==
    /\ calls = <<>>
    /\ Record("new", 0, ResultPromise_new(Cur, "defer", Undefined),
              FALSE, FALSE, Undefined)

\* const p = Result.Promise.from(foreign), or Result.Promise.from(() => foreign)
New_from ==
    \E viaFunction \in BOOLEAN :
        /\ calls = <<>>
        /\ LET st1 == NewForeign(Cur, FALSE)
               f == st1.ret
               a == IF viaFunction THEN Fn(f) ELSE f
           IN Record("from", 0, ResultPromise_from(st1, a), FALSE, FALSE, a)

\* The Results the script calls an asynchronous method on, and what the fn
\* it passes does.
Receivers == {OkResult(Plain(MaxVal)), ErrorResult(Plain(MaxVal))}
AsyncOutcomes == {"rpOk", "rpError", "rpFault", "rpPending", "foreign", "promise", "throw"}

\* const p = r.mapAsync(fn)
New_mapAsync ==
    \E this \in Receivers, outcome \in AsyncOutcomes :
        /\ calls = <<>>
        /\ Record("mapAsync", 0,
                  Result_mapAsync(Cur, this, NextCall, outcome),
                  TRUE, FALSE, this)

\* const p = r.mapOrElseAsync(defaultValue, fn)
New_mapOrElseAsync ==
    \E this \in Receivers, outcome \in AsyncOutcomes :
        /\ calls = <<>>
        /\ Record("mapOrElseAsync", 0,
                  Result_mapOrElseAsync(Cur, this, NextCall, outcome),
                  TRUE, FALSE, this)

\* const p = r.andThenAsync(fn)
New_andThenAsync ==
    \E this \in Receivers, outcome \in AsyncOutcomes :
        /\ calls = <<>>
        /\ Record("andThenAsync", 0,
                  Result_andThenAsync(Cur, this, NextCall, outcome),
                  TRUE, FALSE, this)

\* const p = r.orElseAsync(fn)
New_orElseAsync ==
    \E this \in Receivers, outcome \in AsyncOutcomes :
        /\ calls = <<>>
        /\ Record("orElseAsync", 0,
                  Result_orElseAsync(Cur, this, NextCall, outcome),
                  TRUE, FALSE, this)

\* The script calls one combinator with continuations of its own, on a promise
\* it holds.
CanCall(p) ==
    /\ script
    /\ p \in Visible
    /\ NCalls(Combinators) = 0

\* p.then(onresult?, onthrow?)
Call_then ==
    \E p \in Visible, onresult \in BOOLEAN, onthrow \in BOOLEAN :
        /\ CanCall(p)
        /\ Record("then", p,
                  then(Cur, p,
                       IF onresult THEN User(NextCall, "onresult") ELSE Null,
                       IF onthrow THEN User(NextCall, "onthrow") ELSE Null),
                  onresult, onthrow, Undefined)

\* p.catch(onthrow?)
Call_catch ==
    \E p \in Visible, onthrow \in BOOLEAN :
        /\ CanCall(p)
        /\ Record("catch", p,
                  catch(Cur, p, IF onthrow THEN User(NextCall, "onthrow") ELSE Null),
                  FALSE, onthrow, Undefined)

\* p.map(fn)
Call_map ==
    \E p \in Visible :
        /\ CanCall(p)
        /\ Record("map", p, map(Cur, p, NextCall), TRUE, FALSE, Undefined)

\* p.mapOrElse(defaultValue, fn)
Call_mapOrElse ==
    \E p \in Visible :
        /\ CanCall(p)
        /\ Record("mapOrElse", p, mapOrElse(Cur, p, NextCall), TRUE, FALSE, Undefined)

\* p.andThen(fn)
Call_andThen ==
    \E p \in Visible :
        /\ CanCall(p)
        /\ Record("andThen", p, andThen(Cur, p, NextCall), TRUE, FALSE, Undefined)

\* p.orElse(fn)
Call_orElse ==
    \E p \in Visible :
        /\ CanCall(p)
        /\ Record("orElse", p, orElse(Cur, p, NextCall), TRUE, FALSE, Undefined)

\* p.catch(reason => { ... }) with a handler that returns nothing, as in
\* test/promise.test.ts, lines 27-32.
Observe_catch ==
    \E p \in Visible :
        /\ script
        /\ NCalls({"observe"}) = 0
        /\ Record("observe", p, catch(Cur, p, Observer(NextCall)), FALSE, TRUE, Undefined)

\* const result = await p: the script is suspended until p completes.
Await ==
    \E p \in Visible :
        /\ script
        /\ Record("await", p, await(Cur, p), TRUE, TRUE, Undefined)

\* Whether running job with the handlers returning nothing invokes a handler
\* whose behaviour is free.
ReachesUser(job) ==
    \E r \in {ReactionJob(Cur, job, "undefined")} :
        /\ Len(r.log) > Len(log)
        /\ r.log[Len(r.log)].slot # "observer"

\* The host runs the oldest reaction job; a user handler it reaches behaves
\* as `outcome` says.
RunJob ==
    \E outcome \in Outcomes :
        /\ jobs # <<>>
        /\ calls # <<>>
        /\ outcome # "undefined" => ReachesUser(Head(jobs))
        /\ Commit(ReactionJob([Cur EXCEPT !.jobs = Tail(jobs)], Head(jobs), outcome))
        /\ script' = FALSE
        /\ UNCHANGED <<calls, firstcap>>
        /\ UNCHANGED syncvars

\* The capability `kind` of promise p, called with v.
Capability(st0, p, kind, v) ==
    CHOOSE result \in {
    CASE kind = "resolve" -> resolve(st, p, v)
      [] kind = "reject" -> reject(st, p, v)
      [] kind = "catcher" -> catcher(st, p, v)
    : st \in {st0}} : TRUE

\* An executor that kept its capabilities calls one of them, from a later task
\* of the host.
ExecutorSettle ==
    \E p \in deferred, kind \in {"resolve", "reject", "catcher"}, v \in Vals :
        /\ jobs = <<>>
        /\ Commit(Capability(Cur, p, kind, Plain(v)))
        /\ firstcap' = IF \E i \in 1..Len(firstcap) : firstcap[i].p = p
                       THEN [i \in 1..Len(firstcap) |->
                                IF firstcap[i].p = p
                                THEN [firstcap[i] EXCEPT !.again =
                                         @ \/ kind # firstcap[i].kind
                                           \/ Plain(v) # firstcap[i].v]
                                ELSE firstcap[i]]
                       ELSE Append(firstcap, [p |-> p, kind |-> kind, v |-> Plain(v),
                                              again |-> FALSE])
        /\ script' = FALSE
        /\ UNCHANGED calls
        /\ UNCHANGED syncvars

\* What a foreign thenable completes with: a number, or, when it fulfils, a
\* Result.  One number suffices: the code never inspects it.
ForeignValues ==
    {Plain(MaxVal), OkResult(Plain(MaxVal)), ErrorResult(Plain(MaxVal))}

\* A foreign thenable completes, normally or abnormally, and its callbacks are
\* scheduled.
ForeignSettle ==
    \E f \in 1..Len(foreign), state \in {"fulfilled", "rejected"},
       value \in ForeignValues :
        /\ jobs = <<>>
        /\ foreign[f].state = "pending"
        /\ state = "rejected" => value.tag = "plain"
        /\ LET rs == foreign[f].reactions
               newJobs == [i \in 1..Len(rs) |->
                              Job(IF state = "fulfilled" THEN rs[i].onFulfilled
                                                         ELSE rs[i].onRejected,
                                  value, 0)]
           IN /\ foreign' = [foreign EXCEPT ![f] =
                      [state |-> state, value |-> value, reactions |-> <<>>]]
              /\ jobs' = jobs \o newJobs
        /\ script' = FALSE
        /\ UNCHANGED <<promises, log, awaited, deferred, calls, firstcap>>
        /\ UNCHANGED syncvars

(***************************************************************************)
(* The synchronous programs: build up to MaxObjs objects, then apply one   *)
(* operation of the Result API to them.                                    *)
(***************************************************************************)
SCur == [heap |-> heap, invoked |-> invoked, ret |-> Undefined, throws |-> FALSE]

\* The Results on the heap.
Results == {i \in 1..Len(heap) : is(heap[i])}

\* The string "ab..." of MaxLen characters and the array [1, 2, ...] of MaxLen
\* items.
SomeString == Str([i \in 1..MaxLen |-> <<"a", "b", "c", "d", "e", "f">>[i]])
SomeItems == [i \in 1..MaxLen |-> Plain(i)]

\* The values a program wraps: undefined, numbers, a string, arrays, and the
\* objects it has built.
Payloads ==
    {Undefined, SomeString, Arr(<<>>), Arr(SomeItems)}
        \cup {Plain(v) : v \in Vals}
        \cup {Ref(i) : i \in 1..Len(heap)}

CanBuild == last = NoCall /\ Len(heap) < MaxObjs /\ calls = <<>>

Build(st0) ==
    \E st \in {st0} :
        /\ heap' = st.heap
        /\ UNCHANGED <<invoked, last>>
        /\ UNCHANGED asyncvars

\* const r = Result.ok(value)
Make_ok == CanBuild /\ \E value \in Payloads : Build(ok(SCur, value))

\* const r = Result.error(err)
Make_error == CanBuild /\ \E err \in Payloads : Build(error(SCur, err))

\* const g = (function* () { yield 1; yield 2; ... })()
Make_generator == CanBuild /\ Build(Alloc(SCur, Generator(SomeItems)))

\* The program applies operation op to receiver this with argument arg; st is
\* the state the operation left.
CanApply == last = NoCall /\ calls = <<>>

Apply(op, this, arg, st0) ==
    \E st \in {st0} :
        /\ heap' = st.heap
        /\ invoked' = st.invoked
        /\ last' = [op |-> op, this |-> this, arg |-> arg,
                    ret |-> st.ret, throws |-> st.throws, before |-> heap]
        /\ UNCHANGED asyncvars

\* r.map(fn)
Do_map ==
    CanApply /\ \E this \in Results, outcome \in SyncOutcomes :
        Apply("map", this, outcome,
              IF heap[this].ok THEN OkResult_map(SCur, this, outcome)
                               ELSE ErrorResult_map(SCur, this, outcome))

\* r.mapErr(fn)
Do_mapErr ==
    CanApply /\ \E this \in Results, outcome \in SyncOutcomes :
        Apply("mapErr", this, outcome,
              IF heap[this].ok THEN OkResult_mapErr(SCur, this, outcome)
                               ELSE ErrorResult_mapErr(SCur, this, outcome))

\* r.andThen(fn)
Do_andThen ==
    CanApply /\ \E this \in Results, outcome \in SyncOutcomes :
        Apply("andThen", this, outcome,
              IF heap[this].ok THEN OkResult_andThen(SCur, this, outcome)
                               ELSE ErrorResult_andThen(SCur, this, outcome))

\* r.or(other)
Do_or ==
    CanApply /\ \E this \in Results, other \in Results :
        Apply("or", this, Ref(other),
              IF heap[this].ok THEN OkResult_or(SCur, this, Ref(other))
                               ELSE ErrorResult_or(SCur, this, Ref(other)))

\* r.orElse(fn)
Do_orElse ==
    CanApply /\ \E this \in Results, outcome \in SyncOutcomes :
        Apply("orElse", this, outcome,
              IF heap[this].ok THEN OkResult_orElse(SCur, this, outcome)
                               ELSE ErrorResult_orElse(SCur, this, outcome))

\* The arrays of Results and the argument lists a program passes.
ResultLists == UNION {[1..k -> {Ref(i) : i \in Results}] : k \in 0..(MaxLen + 1)}
ArgLists == UNION {[1..k -> {Plain(MaxVal)} \cup {Ref(i) : i \in Results}] : k \in 0..MaxLen}

\* Result.and(results)
Do_and ==
    CanApply /\ \E results \in ResultLists : Apply("and", 0, results, and(SCur, results))

\* Result.or(results)
Do_orAll ==
    CanApply /\ \E results \in ResultLists : Apply("orAll", 0, results, or(SCur, results))

\* Result.flatten(r)
Do_flatten ==
    CanApply /\ \E this \in Results : Apply("flatten", this, Undefined, flatten(SCur, Ref(this)))

\* r.flatten()
Do_flattenMethod ==
    CanApply /\ \E this \in Results :
        Apply("flattenMethod", this, Undefined,
              IF heap[this].ok THEN OkResult_flatten(SCur, this)
                               ELSE ErrorResult_flatten(SCur, this))

\* Result.from(fn, ...args)
Do_from ==
    CanApply /\ \E outcome \in SyncOutcomes, args \in ArgLists :
        Apply("from", 0, args, from(SCur, outcome, args))

\* const first = [...r]; const second = [...r]
Do_iterate ==
    CanApply /\ \E this \in Results :
        Apply("iterate", this, Undefined, IterateTwice(SCur, this))

\* const all = [...r.values()]
Do_values ==
    CanApply /\ \E this \in Results :
        Apply("values", this, Undefined,
              IF heap[this].ok THEN OkResult_values(SCur, this)
                               ELSE ErrorResult_values(SCur, this))

\* r.forEach(fn), with an fn that returns or raises
Do_forEach ==
    CanApply /\ \E this \in Results, outcome \in {"plain", "throw"} :
        Apply("forEach", this, outcome,
              IF heap[this].ok THEN OkResult_forEach(SCur, this, outcome)
                               ELSE ErrorResult_forEach(SCur, this, outcome))

\* r.isOkAnd(fn), with a predicate
Do_isOkAnd ==
    CanApply /\ \E this \in Results, outcome \in {"true", "false", "throw"} :
        Apply("isOkAnd", this, outcome, Result_isOkAnd(SCur, this, outcome))

\* r.isErrorAnd(fn), with a predicate
Do_isErrorAnd ==
    CanApply /\ \E this \in Results, outcome \in {"true", "false", "throw"} :
        Apply("isErrorAnd", this, outcome, Result_isErrorAnd(SCur, this, outcome))

\* r.mapOr(defaultValue, fn)
Do_mapOr ==
    CanApply /\ \E this \in Results, outcome \in {"plain", "throw"} :
        Apply("mapOr", this, outcome, Result_mapOr(SCur, this, Plain(MaxVal), outcome))

\* r.mapOrElse(defaultValue, fn); the function that is called behaves as
\* outcome says
Do_mapOrElse ==
    CanApply /\ \E this \in Results, outcome \in {"plain", "throw"} :
        Apply("mapOrElse", this, outcome, Result_mapOrElse(SCur, this, outcome))

\* r.inspect(fn)
Do_inspect ==
    CanApply /\ \E this \in Results, outcome \in {"plain", "throw"} :
        Apply("inspect", this, outcome, Result_inspect(SCur, this, outcome))

\* r.inspectError(fn)
Do_inspectError ==
    CanApply /\ \E this \in Results, outcome \in {"plain", "throw"} :
        Apply("inspectError", this, outcome, Result_inspectError(SCur, this, outcome))

\* r.unwrapOrElse(defaultValue)
Do_unwrapOrElse ==
    CanApply /\ \E this \in Results, outcome \in {"plain", "throw"} :
        Apply("unwrapOrElse", this, outcome, Result_unwrapOrElse(SCur, this, outcome))

\* r.clone()
Do_clone ==
    CanApply /\ \E this \in Results :
        Apply("clone", this, Undefined, Result_clone(SCur, this))

\* r.unwrap()
Do_unwrap ==
    CanApply /\ \E this \in Results :
        Apply("unwrap", this, Undefined,
              IF heap[this].ok THEN OkResult_unwrap(SCur, this)
                               ELSE ErrorResult_unwrap(SCur, this))

\* r.expect(msg), r.expect(fn)
Do_expect ==
    CanApply /\ \E this \in Results,
                   msgOrFn \in {SomeString} \cup {Callback(o) : o \in SyncOutcomes} :
        Apply("expect", this, msgOrFn,
              IF heap[this].ok THEN OkResult_expect(SCur, this, msgOrFn)
                               ELSE ErrorResult_expect(SCur, this, msgOrFn))

\* r.unwrapError(), r.unwrapError(fn)
Do_unwrapError ==
    CanApply /\ \E this \in Results,
                   fn \in {Undefined} \cup {Callback(o) : o \in SyncOutcomes} :
        Apply("unwrapError", this, fn,
              IF heap[this].ok THEN OkResult_unwrapError(SCur, this, fn)
                               ELSE ErrorResult_unwrapError(SCur, this, fn))

SyncNext ==
    \/ Make_ok
    \/ Make_error
    \/ Make_generator
    \/ Do_iterate
    \/ Do_values
    \/ Do_forEach
    \/ Do_isOkAnd
    \/ Do_isErrorAnd
    \/ Do_mapOr
    \/ Do_mapOrElse
    \/ Do_inspect
    \/ Do_inspectError
    \/ Do_unwrapOrElse
    \/ Do_clone
    \/ Do_unwrap
    \/ Do_expect
    \/ Do_unwrapError
    \/ Do_map
    \/ Do_mapErr
    \/ Do_andThen
    \/ Do_or
    \/ Do_orElse
    \/ Do_and
    \/ Do_orAll
    \/ Do_flatten
    \/ Do_flattenMethod
    \/ Do_from

Next ==
    \/ New_ok
    \/ New_error
    \/ New_fault
    \/ New_deferred
    \/ New_from
    \/ Call_then
    \/ Call_catch
    \/ Call_map
    \/ Call_mapOrElse
    \/ Call_andThen
    \/ Call_orElse
    \/ Observe_catch
    \/ Await
    \/ RunJob
    \/ ExecutorSettle
    \/ ForeignSettle

\* The programs whose source is a ResultPromise made by the class itself.
Spec == Init /\ [][Next]_vars

\* The programs whose source is made by an asynchronous method of a Result.
BridgeNext ==
    \/ New_mapAsync
    \/ New_mapOrElseAsync
    \/ New_andThenAsync
    \/ New_orElseAsync
    \/ Call_then
    \/ Call_catch
    \/ Call_map
    \/ Call_mapOrElse
    \/ Call_andThen
    \/ Call_orElse
    \/ Observe_catch
    \/ Await
    \/ RunJob
    \/ ExecutorSettle
    \/ ForeignSettle

BridgeSpec == Init /\ [][BridgeNext]_vars

\* The synchronous programs.
SyncSpec == Init /\ [][SyncNext]_vars

(***************************************************************************)
(* Vocabulary of the properties.                                           *)
(***************************************************************************)
\* Promise p has settled to Success(v) / to Failure(e) / has faulted with r.
Success(p, v) == promises[p].state = "fulfilled" /\ promises[p].value = OkResult(v)
Failure(p, e) == promises[p].state = "fulfilled" /\ promises[p].value = ErrorResult(e)
Faulted(p, r) == promises[p].state = "rejected" /\ promises[p].value = r
IsFailure(p) == promises[p].state = "fulfilled" /\ promises[p].value.tag = "error"
IsSettled(p) == promises[p].state = "fulfilled"

\* p and q have completed in the same channel with the same payload.
SameOutcome(p, q) ==
    /\ promises[p].state = promises[q].state
    /\ promises[p].value = promises[q].value

\* No reaction job is waiting: every continuation that could run has run.
Idle == jobs = <<>>

CallIds == 1..Len(calls)
LogIds == 1..Len(log)

\* The foreign thenable that call i of ResultPromise.from adapted.
FromForeign(i) ==
    IF calls[i].arg.tag = "function" THEN calls[i].arg.returns.id ELSE calls[i].arg.id

(***************************************************************************)
(* C1.  On a source settled to Success(v), when the continuation of        *)
(* andThen raises x, the future andThen returned completes in the Faulted  *)
(* channel with x once the reactions have run, and is never a Failure.     *)
(***************************************************************************)
C1_AndThenRaiseFaults ==
    \A j \in LogIds :
        LET i == log[j].call IN
        (calls[i].op = "andThen" /\ log[j].throws)
            => /\ ~IsFailure(calls[i].out)
               /\ Idle => Faulted(calls[i].out, log[j].ret)

(***************************************************************************)
(* C2.  When the source has settled to a Result r, the future returned by  *)
(* catch(handler) settles to r once the reactions have run, and the        *)
(* handler is not invoked.                                                 *)
(***************************************************************************)
C2_CatchLeavesSettled ==
    \A i \in CallIds :
        (calls[i].op = "catch" /\ calls[i].onthrow /\ IsSettled(calls[i].src))
            => /\ \A j \in LogIds : log[j].call # i
               /\ Idle => SameOutcome(calls[i].out, calls[i].src)

(***************************************************************************)
(* C3.  When a handler passed to then raises x, the derived future is      *)
(* faulted with exactly x (never Failure(x)), and a fault handler          *)
(* registered on the derived future with catch is invoked with x.          *)
(***************************************************************************)
C3_ThenRaiseFaults ==
    \A j \in LogIds :
        LET i == log[j].call IN
        (calls[i].op = "then" /\ log[j].throws)
            => /\ Faulted(calls[i].out, log[j].ret)
               /\ \A k \in CallIds :
                    (calls[k].op = "observe" /\ calls[k].src = calls[i].out /\ Idle)
                        => \E m \in LogIds :
                              /\ log[m].call = k
                              /\ log[m].arg = log[j].ret

C3_Witness ==
    \E j, m \in LogIds :
        /\ calls[log[j].call].op = "then"
        /\ log[j].slot = "onresult"
        /\ log[j].throws
        /\ calls[log[m].call].op = "observe"
        /\ calls[log[m].call].src = calls[log[j].call].out
        /\ log[m].arg = Fresh(log[j].call)

(***************************************************************************)
(* C4.  In P.then(h).catch(c) with P a Failure, h raising and c returning  *)
(* nothing, the Result that awaiting the chain produces has ok = false.    *)
(***************************************************************************)
C4_ChainAwaitedNotOk ==
    \A i, k, a \in CallIds :
        ( /\ calls[i].op = "then"
          /\ IsFailure(calls[i].src)
          /\ \E j \in LogIds : log[j].call = i /\ log[j].throws
          /\ calls[k].op = "observe" /\ calls[k].src = calls[i].out
          /\ calls[a].op = "await" /\ calls[a].src = calls[k].out
          /\ awaited.status = "result" )
            => ~awaited.value.ok

(***************************************************************************)
(* C5.  When a continuation of then, map, mapOrElse, andThen or orElse     *)
(* returns a foreign thenable, the derived future settles to Success(u)    *)
(* if the thenable completes with u and faults with r if it rejects with   *)
(* r; it is never a Failure.                                               *)
(***************************************************************************)
C5_ForeignReturnSpliced ==
    \A j \in LogIds :
        LET i == log[j].call
            out == calls[i].out
        IN
        (calls[i].op \in {"then", "map", "mapOrElse", "andThen", "orElse"}
            /\ ~log[j].throws /\ log[j].ret.tag = "foreign")
            => LET f == foreign[log[j].ret.id] IN
               /\ ~IsFailure(out)
               /\ (Idle /\ f.state = "fulfilled") => Success(out, f.value)
               /\ (Idle /\ f.state = "rejected") => Faulted(out, f.value)
               /\ f.state = "pending" => promises[out].state = "pending"

C5_Witness ==
    \E j \in LogIds :
        /\ calls[log[j].call].op = "andThen"
        /\ log[j].ret.tag = "foreign"
        /\ foreign[log[j].ret.id].state = "rejected"
        /\ Faulted(calls[log[j].call].out, foreign[log[j].ret.id].value)

(***************************************************************************)
(* C6.  ResultPromise.from of a foreign thenable (or of a function         *)
(* returning one) settles to Success(u) when the thenable completes with   *)
(* u and to Failure(r) when it rejects with r; it never faults.            *)
(***************************************************************************)
C6_FromAdaptsRejection ==
    \A i \in CallIds :
        calls[i].op = "from"
            => LET f == foreign[FromForeign(i)]
                   out == calls[i].out
               IN /\ promises[out].state # "rejected"
                  /\ (Idle /\ f.state = "fulfilled") => Success(out, f.value)
                  /\ (Idle /\ f.state = "rejected") => Failure(out, f.value)
                  /\ f.state = "pending" => promises[out].state = "pending"

C6_Witness ==
    \E i \in CallIds :
        /\ calls[i].op = "from"
        /\ calls[i].arg.tag = "function"
        /\ foreign[FromForeign(i)].state = "rejected"
        /\ Failure(calls[i].out, foreign[FromForeign(i)].value)

(***************************************************************************)
(* C7.  When a continuation returns a value v that is no thenable, the     *)
(* derived future settles to v itself if v is a Result and to Success(v)   *)
(* otherwise; on Success(2), andThen(v => v + 1) gives Success(3) and      *)
(* andThen(v => error(x)) gives Failure(x).                                *)
(***************************************************************************)
C7_PlainAndResultReturns ==
    \A j \in LogIds :
        LET i == log[j].call
            out == calls[i].out
            v == log[j].ret
        IN
        (calls[i].op \in Combinators /\ ~log[j].throws /\ ~isThenable(v))
            => /\ v.tag = "ok" => Success(out, v.value)
               /\ v.tag = "error" => Failure(out, v.error)
               /\ v.tag \notin {"ok", "error"} => Success(out, v)
               /\ (calls[i].op = "andThen" /\ log[j].arg = Plain(2)
                      /\ log[j].outcome = "inc") => Success(out, Plain(3))
               /\ (calls[i].op = "andThen" /\ log[j].outcome = "error")
                      => Failure(out, Fresh(i))

C7_Witness ==
    \E j \in LogIds :
        /\ calls[log[j].call].op = "andThen"
        /\ Success(calls[log[j].call].src, Plain(2))
        /\ log[j].outcome = "inc"
        /\ Success(calls[log[j].call].out, Plain(3))

(***************************************************************************)
(* C8.  When a continuation returns a ResultPromise a, the derived future  *)
(* completes as a does, in the same channel with the same payload, and     *)
(* its Result is not nested.                                               *)
(***************************************************************************)
C8_ResultPromiseReturnSpliced ==
    \A j \in LogIds :
        LET i == log[j].call
            out == calls[i].out
        IN
        (calls[i].op \in Combinators /\ ~log[j].throws /\ log[j].ret.tag = "rp")
            => LET a == log[j].ret.id IN
               /\ Idle => SameOutcome(out, a)
               /\ promises[a].state = "pending" => promises[out].state = "pending"
               /\ promises[out].state # "pending" => SameOutcome(out, a)
               /\ promises[out].value.tag = "ok" => ~is(promises[out].value.value)

C8_Witness ==
    \E j \in LogIds :
        /\ log[j].outcome = "rpPending"
        /\ promises[log[j].ret.id].state = "rejected"
        /\ calls[log[j].call].op = "orElse"
        /\ Faulted(calls[log[j].call].out, promises[log[j].ret.id].value)

(***************************************************************************)
(* C9.  then without handlers derives a future that completes as its       *)
(* source does; with only onresult a fault of the source propagates        *)
(* unchanged, with only onthrow a settled source passes through.           *)
(***************************************************************************)
C9_ThenPassThrough ==
    \A i \in CallIds :
        LET src == calls[i].src
            out == calls[i].out
        IN
        (calls[i].op = "then" /\ Idle)
            => /\ (~calls[i].onresult /\ IsSettled(src)) => SameOutcome(out, src)
               /\ (~calls[i].onthrow /\ promises[src].state = "rejected")
                      => SameOutcome(out, src)

C9_Witness ==
    \E i \in CallIds :
        /\ calls[i].op = "then"
        /\ ~calls[i].onresult
        /\ ~calls[i].onthrow
        /\ promises[calls[i].src].state = "rejected"
        /\ Faulted(calls[i].out, promises[calls[i].src].value)

(***************************************************************************)
(* C10.  An executor's settle-success(v) gives Success(v), its             *)
(* settle-failure(e) gives Failure(e), its fault(r) a fault with r itself; *)
(* ResultPromise.ok(v) has ok = true and ResultPromise.error(e) ok = false.*)
(***************************************************************************)
C10_ExecutorChannels ==
    /\ \A i \in CallIds :
          /\ calls[i].op = "ok"
                => Success(calls[i].out, calls[i].arg) /\ promises[calls[i].out].value.ok
          /\ calls[i].op = "error"
                => Failure(calls[i].out, calls[i].arg) /\ ~promises[calls[i].out].value.ok
          /\ calls[i].op = "fault" => Faulted(calls[i].out, calls[i].arg)
    /\ \A c \in 1..Len(firstcap) :
          /\ firstcap[c].kind = "resolve" => Success(firstcap[c].p, firstcap[c].v)
          /\ firstcap[c].kind = "reject" => Failure(firstcap[c].p, firstcap[c].v)
          /\ firstcap[c].kind = "catcher" => Faulted(firstcap[c].p, firstcap[c].v)

C10_Witness ==
    \E c \in 1..Len(firstcap) :
        /\ firstcap[c].kind = "reject"
        /\ Failure(firstcap[c].p, firstcap[c].v)
        /\ \E i \in CallIds : calls[i].op = "new" /\ calls[i].out = firstcap[c].p

(***************************************************************************)
(* C11.  A ResultPromise completes at most once: once it has left the      *)
(* pending state, no step (a later call of settle-success, settle-failure  *)
(* or fault by its executor, or any continuation) changes its channel or   *)
(* its payload.                                                            *)
(***************************************************************************)
C11_CompletesOnce ==
    [][\A p \in 1..Len(promises) :
          promises[p].state # "pending"
              => /\ promises'[p].state = promises[p].state
                 /\ promises'[p].value = promises[p].value]_vars

C11_Witness ==
    \E c \in 1..Len(firstcap) :
        /\ firstcap[c].kind = "resolve"
        /\ firstcap[c].again
        /\ Success(firstcap[c].p, firstcap[c].v)

(***************************************************************************)
(* C12.  Every ResultPromise that has completed normally, the promises     *)
(* the combinators create internally included, carries a Result (an        *)
(* OkResult or an ErrorResult), never a bare value, a thenable or a fault  *)
(* reason.                                                                 *)
(***************************************************************************)
C12_SettledCarriesResult ==
    \A p \in 1..Len(promises) :
        promises[p].state = "fulfilled"
            => /\ is(promises[p].value)
               /\ ~isThenable(promises[p].value)
               /\ promises[p].value.ok = (promises[p].value.tag = "ok")

C12_Witness ==
    \E p \in 1..Len(promises) :
        /\ p \notin Visible
        /\ IsFailure(p)
        /\ \E q \in 1..Len(promises) :
              q \notin Visible /\ promises[q].state = "fulfilled"
                  /\ promises[q].value = OkResult(Undefined)

(***************************************************************************)
(* C13.  On a source settled to Failure(e), map(fn) and andThen(fn) never  *)
(* invoke fn and the derived future settles to Failure(e); on a source     *)
(* settled to Success(v), orElse(fn) never invokes fn and the derived      *)
(* future settles to Success(v); mapOrElse(defaultValue, fn) invokes       *)
(* exactly one of its handlers, fn with v on Success(v) and defaultValue   *)
(* with e on Failure(e).                                                   *)
(***************************************************************************)
C13_AsyncShortCircuit ==
    \A i \in CallIds :
        LET src == calls[i].src
            out == calls[i].out
            inv == {j \in LogIds : log[j].call = i}
        IN /\ (calls[i].op \in {"map", "andThen"} /\ IsFailure(src))
                => /\ inv = {}
                   /\ Idle => SameOutcome(out, src)
           /\ (calls[i].op = "orElse" /\ IsSettled(src) /\ promises[src].value.ok)
                => /\ inv = {}
                   /\ Idle => SameOutcome(out, src)
           /\ calls[i].op = "mapOrElse"
                => /\ Cardinality(inv) <= 1
                   /\ \A j \in inv :
                         /\ IsSettled(src)
                         /\ promises[src].value.ok
                               => log[j].slot = "fn"
                                  /\ log[j].arg = promises[src].value.value
                         /\ ~promises[src].value.ok
                               => log[j].slot = "defaultValue"
                                  /\ log[j].arg = promises[src].value.error
                   /\ (Idle /\ IsSettled(src)) => Cardinality(inv) = 1

C13_Witness ==
    \E i, k \in CallIds :
        /\ calls[i].op = "andThen"
        /\ calls[k].op = "new"
        /\ calls[i].src = calls[k].out
        /\ Failure(calls[i].src, Plain(MaxVal))
        /\ Failure(calls[i].out, Plain(MaxVal))
        /\ log = <<>>
        /\ Idle

(***************************************************************************)
(* C20.  When the source has faulted with reason r, the future returned by *)
(* map, mapOrElse, andThen or orElse has faulted with r once the reactions *)
(* have run (it does not stay pending), and its continuation is not        *)
(* invoked.                                                                *)
(***************************************************************************)
C20_SourceFaultPropagates ==
    \A i \in CallIds :
        (calls[i].op \in {"map", "mapOrElse", "andThen", "orElse"}
            /\ promises[calls[i].src].state = "rejected")
            => /\ \A j \in LogIds : log[j].call # i
               /\ Idle => SameOutcome(calls[i].out, calls[i].src)

(***************************************************************************)
(* C14.  On a Failure, map(fn) and andThen(fn) do not invoke fn and return *)
(* the receiver itself; on a Success, mapErr(fn), or(other) and orElse(fn) *)
(* do not invoke fn and return the receiver itself.                        *)
(***************************************************************************)
C14_SyncShortCircuit ==
    ( \/ last.op \in {"map", "andThen"} /\ ~heap[last.this].ok
      \/ last.op \in {"mapErr", "or", "orElse"} /\ heap[last.this].ok )
        => /\ invoked = <<>>
           /\ ~last.throws
           /\ last.ret = Ref(last.this)

C14_Witness ==
    /\ last.op = "map"
    /\ last.arg = "plain"
    /\ heap[last.this] = ErrorResult(Plain(MaxVal))
    /\ last.ret = Ref(last.this)
    /\ Len(heap) = MaxObjs

(***************************************************************************)
(* C15.  and(results) returns the first Failure of the sequence if there   *)
(* is one and otherwise its last element; or(results) returns the first    *)
(* Success if there is one and otherwise the last element; both return a   *)
(* new Success with no value for the empty sequence; for a non-empty       *)
(* sequence the Result returned is one of the input instances.             *)
(***************************************************************************)
C15_AndOrOverSequences ==
    last.op \in {"and", "orAll"}
        => LET results == last.arg
               n == Len(results)
               \* and stops at a failure, or at a success
               stops(i) == heap[results[i].id].ok = (last.op = "orAll")
           IN /\ ~last.throws
              /\ invoked = <<>>
              /\ n = 0 => /\ last.ret = Ref(Len(heap))
                          /\ heap[Len(heap)] = OkResult(Undefined)
              /\ n > 0 => /\ \E i \in 1..n : last.ret = results[i]
                          /\ \A i \in 1..n :
                                (stops(i) /\ \A j \in 1..(i - 1) : ~stops(j))
                                    => last.ret = results[i]
                          /\ (\A i \in 1..n : ~stops(i)) => last.ret = results[n]

C15_Witness ==
    /\ last.op = "and"
    /\ Len(last.arg) = MaxLen + 1
    /\ heap[last.arg[1].id].ok
    /\ ~heap[last.arg[MaxLen].id].ok
    /\ heap[last.arg[MaxLen + 1].id].ok
    /\ last.ret = last.arg[MaxLen]

(***************************************************************************)
(* C16.  flatten(ok(ok(x))) is the inner ok(x), flatten(ok(error(e))) is   *)
(* the inner error(e), flatten(error(e)) is the outer error(e) whatever e  *)
(* is, a Result included; the function flatten and the method flatten()    *)
(* return the same on these inputs.                                        *)
(***************************************************************************)
C16_Flatten ==
    last.op \in {"flatten", "flattenMethod"}
        => LET outer == heap[last.this]
               viaFunction == flatten(SCur, Ref(last.this)).ret
               viaMethod == IF outer.ok THEN OkResult_flatten(SCur, last.this).ret
                                        ELSE ErrorResult_flatten(SCur, last.this).ret
           IN /\ ~last.throws
              /\ (outer.ok /\ isResult(SCur, outer.value)) => last.ret = outer.value
              /\ ~outer.ok => last.ret = Ref(last.this)
              /\ (~outer.ok \/ isResult(SCur, outer.value))
                    => last.ret = viaFunction /\ last.ret = viaMethod

C16_Witness ==
    /\ last.op = "flatten"
    /\ ~heap[last.this].ok
    /\ isResult(SCur, heap[last.this].error)
    /\ heap[heap[last.this].error.id].ok
    /\ last.ret = Ref(last.this)

(***************************************************************************)
(* C17.  from(fn, ...args) invokes fn exactly once with args and does not  *)
(* raise: it returns a new ok(r) when fn returns r and a new error(x),     *)
(* with x itself as the payload, when fn raises x.                         *)
(***************************************************************************)
C17_FromCapturesRaise ==
    last.op = "from"
        => /\ ~last.throws
           /\ Len(invoked) = 1
           /\ invoked[1].args = last.arg
           /\ last.ret = Ref(Len(heap))
           /\ heap[Len(heap)] = IF invoked[1].throws THEN ErrorResult(invoked[1].ret)
                                                     ELSE OkResult(invoked[1].ret)

C17_Witness ==
    /\ last.op = "from"
    /\ Len(last.arg) = MaxLen
    /\ invoked[1].throws
    /\ heap[last.ret.id] = ErrorResult(Fresh(2))

\* The sequence expected of iterating Result r of heap h: nothing for a
\* Failure, the elements of an iterable payload, the payload itself otherwise.
\* The elements of an array are its items, those of a generator object what it
\* has left, those of a Result what iterating that Result gives, and those of a
\* string, where a string counts as an iterable, its characters.
RECURSIVE Yielded(_, _, _)
Yielded(h, r, strings) ==
    IF ~h[r].ok THEN <<>>
    ELSE LET v == h[r].value
         IN CASE v.tag = "array" -> v.items
              [] v.tag = "string" /\ strings ->
                    [i \in 1..Len(v.chars) |-> Str(<<v.chars[i]>>)]
              [] v.tag = "ref" /\ h[v.id].tag = "generator" -> h[v.id].items
              [] v.tag = "ref" /\ h[v.id].tag # "generator" -> Yielded(h, v.id, strings)
              [] OTHER -> <<v>>

\* Iterating Result r of heap h runs a generator object that has items left.
RECURSIVE OneShot(_, _)
OneShot(h, r) ==
    /\ h[r].ok
    /\ h[r].value.tag = "ref"
    /\ IF h[h[r].value.id].tag = "generator"
       THEN h[h[r].value.id].items # <<>>
       ELSE OneShot(h, h[r].value.id)

(***************************************************************************)
(* C18, as stated.  Iterating a Success whose payload is iterable (an      *)
(* array, a string, a generator, a Result) yields the elements of the      *)
(* payload in order; iterating a Success whose payload is not iterable     *)
(* yields the payload as the single element; iterating a Failure yields    *)
(* nothing; a second fresh iteration yields the same sequence again.       *)
(***************************************************************************)
C18_IterationYields ==
    last.op = "iterate"
        => /\ ~last.throws
           /\ last.ret[1] = Yielded(last.before, last.this, TRUE)
           /\ last.ret[2] = last.ret[1]

(***************************************************************************)
(* C18, amended.  Iterating a Success whose payload is an iterable object  *)
(* (an array, a generator, a Result) yields what the payload's iterator    *)
(* yields, for an array its items in order; iterating a Success with any   *)
(* other payload, a primitive string included, yields the payload as the   *)
(* single element; iterating a Failure yields nothing; a second fresh      *)
(* iteration yields the same sequence again unless the first one ran a     *)
(* generator object, which cannot be run twice.                            *)
(***************************************************************************)
C18_IterationYieldsObjects ==
    last.op = "iterate"
        => /\ ~last.throws
           /\ last.ret[1] = Yielded(last.before, last.this, FALSE)
           /\ ~OneShot(last.before, last.this) => last.ret[2] = last.ret[1]
           /\ invoked = <<>>

C18_Witness ==
    /\ last.op = "iterate"
    /\ \E inner \in 1..Len(heap) :
          /\ heap[last.this] = OkResult(Ref(inner))
          /\ heap[inner] = OkResult(Arr(SomeItems))
    /\ last.ret = <<SomeItems, SomeItems>>
    /\ Len(SomeItems) > 1

(***************************************************************************)
(* C19.  On Failure(e): unwrap() raises e itself, expect(msg) raises an    *)
(* Error whose message is msg, ": " and e as a string, expect(fn) raises   *)
(* fn(e), unwrapError() returns e.  On Success(v): unwrap() and expect()   *)
(* return v, unwrapError() raises v and unwrapError(fn) raises fn(v).      *)
(***************************************************************************)
C19_ExtractionRaises ==
    last.op \in {"unwrap", "expect", "unwrapError"}
        => LET r == heap[last.this]
               \* fn was invoked once with x and the operation raised what it
               \* returned (or what it raised itself)
               raisesFnOf(x) ==
                   /\ last.throws
                   /\ Len(invoked) = 1
                   /\ invoked[1].args = <<x>>
                   /\ last.ret = invoked[1].ret
               returns(x) == ~last.throws /\ last.ret = x /\ invoked = <<>>
               raises(x) == last.throws /\ last.ret = x /\ invoked = <<>>
           IN CASE last.op = "unwrap" ->
                      IF r.ok THEN returns(r.value) ELSE raises(r.error)
                [] last.op = "expect" ->
                      IF r.ok THEN returns(r.value)
                      ELSE IF last.arg.tag = "string"
                      THEN /\ last.throws
                           /\ invoked = <<>>
                           /\ last.ret.tag = "Error"
                           /\ last.ret.message.tag = "string"
                           /\ last.ret.message.chars
                                  = last.arg.chars \o <<":", " ">> \o toString(heap, r.error)
                           /\ r.error = Plain(1)
                                  => last.ret.message.chars
                                        = last.arg.chars \o <<":", " ", "1">>
                           /\ (r.error.tag = "ref" /\ heap[r.error.id].tag = "generator")
                                  => last.ret.message.chars
                                        = last.arg.chars \o <<":", " ", "[", "o", "b", "j", "e", "c", "t", " ",
                                                "G", "e", "n", "e", "r", "a", "t", "o", "r", "]">>
                      ELSE raisesFnOf(r.error)
                [] last.op = "unwrapError" ->
                      IF ~r.ok THEN returns(r.error)
                      ELSE IF last.arg.tag = "callback" THEN raisesFnOf(r.value)
                      ELSE raises(r.value)

C19_Witness ==
    /\ last.op = "expect"
    /\ last.arg = SomeString
    /\ heap[last.this] = ErrorResult(Arr(SomeItems))
    /\ last.throws
    /\ last.ret.tag = "Error"
    /\ Len(last.ret.message.chars) = Len(SomeString.chars) + 2 + (2 * MaxLen - 1)

\* What the default iterator of Result r yields in a program whose heap is h.
Iterated(h, r) ==
    LET st == [heap |-> h, invoked |-> <<>>, ret |-> Undefined, throws |-> FALSE]
    IN IF h[r].ok THEN OkResult_iterator(st, r).ret
                  ELSE ErrorResult_iterator(st, r).ret

\* The arguments fn was called with, in the order of the calls.
Arguments == [i \in 1..Len(invoked) |-> invoked[i].args]

\* [...r.values()] is what [...r] is from the same state.
ValuesAgree ==
    last.op = "values"
        => /\ ~last.throws
           /\ last.ret = Iterated(last.before, last.this)

\* r.forEach(fn) calls fn with one argument at a time, the elements [...r]
\* has from the same state, in order; it stops early only when fn raises.
ForEachAgrees ==
    last.op = "forEach"
        => LET all == Iterated(last.before, last.this)
           IN IF last.throws
              THEN /\ Len(invoked) \in 1..Len(all)
                   /\ Arguments = [i \in 1..Len(invoked) |-> <<all[i]>>]
                   /\ invoked[Len(invoked)].throws
              ELSE Arguments = [i \in 1..Len(all) |-> <<all[i]>>]

(***************************************************************************)
(* C21.  For every Result the three traversals agree: the sequence that    *)
(* values() produces, the sequence the default iterator produces, and the  *)
(* sequence of arguments forEach(fn) calls fn with are the same, also for  *)
(* a Success whose payload is itself iterable.                             *)
(***************************************************************************)
C21_TraversalsAgree == ValuesAgree /\ ForEachAgrees
====
